---------------------------- MODULE Spec2Model ----------------------------
(***************************************************************************)
(* A model of subprojects/packagefiles/onnxruntime/meson_ort_build.py: the  *)
(* toolchain-fingerprinted build cache in front of the ONNX Runtime CMake   *)
(* build.                                                                   *)
(*                                                                          *)
(* Strings are sequences of one-character strings; a literal of the source  *)
(* that is never taken apart ("-mcpu=native", "unknown", "build") is one    *)
(* element.  A path is a sequence of components, each a string; the         *)
(* component Root marks an absolute path.                                   *)
(***************************************************************************)
EXTENDS Integers, Sequences, FiniteSets, TLC

(***************************************************************************)
(* Bounds of the model.                                                     *)
(***************************************************************************)
\* longest value drawn for an environment variable or an argument
MaxLen == 2

\* how many invocations of the script one behaviour holds
MaxRuns == 2

\* longest --extra string drawn for parse_extra_defines
MaxExtraLen == 5

\* how many groups one call of join_flags is given
MaxGroups == 2

\* characters the drawn values are made of: a letter, a blank, the separator
\* of the signature's field list
Chars == {"a", " ", "|"}

\* str.strip() and str.split() without arguments work on whitespace
WS == {" "}

RECURSIVE StringsUpTo(_)
StringsUpTo(n) ==
    IF n = 0 THEN {<<>>}
    ELSE LET shorter == StringsUpTo(n - 1)
         IN  shorter \cup {Append(s, c) : s \in {t \in shorter : Len(t) = n - 1}, c \in Chars}

Strings == StringsUpTo(MaxLen)

\* the characters of the --extra strings: a letter, the two separators of
\* KEY=VALUE;KEY=VALUE, and whitespace
ExtraChars == {"a", "=", ";", " "}

RECURSIVE StringsOver(_, _)
StringsOver(chars, n) ==
    IF n = 0 THEN {<<>>}
    ELSE LET shorter == StringsOver(chars, n - 1)
         IN  shorter \cup {Append(s, c) : s \in {t \in shorter : Len(t) = n - 1}, c \in chars}

ExtraStrings == StringsOver(ExtraChars, MaxExtraLen)

(***************************************************************************)
(* Python's string operations.                                              *)
(***************************************************************************)
RECURSIVE LStrip(_)
LStrip(s) == IF s # <<>> /\ Head(s) \in WS THEN LStrip(Tail(s)) ELSE s

RECURSIVE RStrip(_)
RStrip(s) ==
    IF s # <<>> /\ s[Len(s)] \in WS THEN RStrip(SubSeq(s, 1, Len(s) - 1)) ELSE s

\* str.strip()
Strip(s) == RStrip(LStrip(s))

\* sep.join(parts)
RECURSIVE Join(_, _)
Join(sep, parts) ==
    IF parts = <<>> THEN <<>>
    ELSE IF Len(parts) = 1 THEN parts[1]
    ELSE parts[1] \o sep \o Join(sep, Tail(parts))

RECURSIVE SplitAcc(_, _, _, _)
SplitAcc(s, seps, cur, acc) ==
    IF s = <<>> THEN Append(acc, cur)
    ELSE IF Head(s) \in seps THEN SplitAcc(Tail(s), seps, <<>>, Append(acc, cur))
    ELSE SplitAcc(Tail(s), seps, Append(cur, Head(s)), acc)

\* str.split(sep): the pieces between separators, empty ones kept
SplitKeep(s, seps) == SplitAcc(s, seps, <<>>, <<>>)

\* str.split(): the whitespace-separated tokens, no empty ones
SplitWS(s) == SelectSeq(SplitKeep(s, WS), LAMBDA x : x # <<>>)

\* "x in s" for a one-character x
Contains(s, c) == \E i \in 1..Len(s) : s[i] = c

(***************************************************************************)
(* pathlib.                                                                 *)
(***************************************************************************)
Root == <<"/">>

\* Path(s)
PathOf(s) ==
    LET parts == SelectSeq(SplitKeep(s, {"/"}), LAMBDA x : x # <<>>)
    IN  IF s # <<>> /\ Head(s) = "/" THEN <<Root>> \o parts ELSE parts

IsAbs(p) == p # <<>> /\ p[1] = Root

\* p / s: an absolute right operand replaces the left one, an empty one adds nothing
PathJoin(p, s) == IF IsAbs(PathOf(s)) THEN PathOf(s) ELSE p \o PathOf(s)

\* str(p)
PathStr(p) ==
    IF IsAbs(p) THEN <<"/">> \o Join(<<"/">>, Tail(p)) ELSE Join(<<"/">>, p)

\* the working directory of the process and the home directory of the user
Cwd == <<Root, <<"w">>>>
Home == <<Root, <<"h">>>>

\* Path.resolve() of a path without symlinks in it, relative to base
ResolveFrom(base, p) == IF IsAbs(p) THEN p ELSE base \o p

(***************************************************************************)
(* join_flags: a chunk is a list of tokens or a raw string.                 *)
(***************************************************************************)
ListChunk(toks) == [isList |-> TRUE, val |-> toks]
StrChunk(s) == [isList |-> FALSE, val |-> s]

\* a flattening that keeps the blank entries of a list
RECURSIVE JoinFlagsTokensKeepBlank(_)
JoinFlagsTokensKeepBlank(chunks) ==
    IF chunks = <<>> THEN <<>>
    ELSE LET c == Head(chunks)
             toks == IF c.val = <<>> THEN <<>>
                     ELSE IF c.isList THEN c.val ELSE SplitWS(c.val)
         IN  toks \o JoinFlagsTokensKeepBlank(Tail(chunks))

RECURSIVE JoinFlagsTokens(_)
JoinFlagsTokens(chunks) ==
    IF chunks = <<>> THEN <<>>
    ELSE LET c == Head(chunks)
             toks == IF c.val = <<>> THEN <<>>
                     ELSE IF c.isList
                          THEN SelectSeq(c.val, LAMBDA x : Strip(x) # <<>>)
                          ELSE SplitWS(c.val)
         IN  toks \o JoinFlagsTokens(Tail(chunks))

join_flags(chunks) == Join(<<" ">>, JoinFlagsTokens(chunks))

(***************************************************************************)
(* parse_extra_defines: [ok, parts]; ok is FALSE where the source raises.   *)
(***************************************************************************)
\* a parser that keeps the whitespace around each entry
parse_extra_defines_unstripped(extra) ==
    LET e == Strip(extra)
        parts == SelectSeq(SplitKeep(e, {";"}), LAMBDA x : Strip(x) # <<>>)
    IN  IF e = <<>> THEN [ok |-> TRUE, parts |-> <<>>]
        ELSE IF \E i \in 1..Len(parts) : ~Contains(parts[i], "=")
             THEN [ok |-> FALSE, parts |-> <<>>]
             ELSE [ok |-> TRUE, parts |-> parts]

parse_extra_defines(extra) ==
    LET e == Strip(extra)
        parts == SelectSeq([i \in 1..Len(SplitKeep(e, {";"})) |->
                               Strip(SplitKeep(e, {";"})[i])],
                           LAMBDA x : x # <<>>)
    IN  IF e = <<>> THEN [ok |-> TRUE, parts |-> <<>>]
        ELSE IF \E i \in 1..Len(parts) : ~Contains(parts[i], "=")
             THEN [ok |-> FALSE, parts |-> <<>>]
             ELSE [ok |-> TRUE, parts |-> parts]

(***************************************************************************)
(* compute_toolchain_signature.  The environment it reads is the request's  *)
(* env field.  SHA-256 is taken as injective: the digest of s is s itself   *)
(* behind a marker.                                                         *)
(***************************************************************************)
Sha256Hex12(s) == <<"sha256:">> \o s

\* a field list that leaves CXXFLAGS out
SignaturePartsWithoutCxxflags(env, ort_version, tests, acl, xnnpack, extra) ==
    << ort_version, Strip(env.CC), Strip(env.CXX), Strip(env.CFLAGS),
       tests, acl, xnnpack, Strip(extra) >>

SignatureParts(env, ort_version, tests, acl, xnnpack, extra) ==
    << ort_version,
       Strip(env.CC),
       Strip(env.CXX),
       Strip(env.CFLAGS),
       Strip(env.CXXFLAGS),
       tests,
       acl,
       xnnpack,
       Strip(extra) >>

compute_toolchain_signature(env, ort_version, tests, acl, xnnpack, extra) ==
    Sha256Hex12(Join(<<"|">>, SignatureParts(env, ort_version, tests, acl, xnnpack, extra)))

(***************************************************************************)
(* default_cache_root and the head of main: version, cache root, signature, *)
(* the three persistent directories.                                        *)
(***************************************************************************)
default_cache_root(env) ==
    IF env.XDG_CACHE_HOME # <<>>
    THEN PathOf(env.XDG_CACHE_HOME) \o << <<"idet">>, <<"onnxruntime">> >>
    ELSE Home \o << <<".cache">>, <<"idet">>, <<"onnxruntime">> >>

\* ort_version = (args.ort_ver or "unknown").strip()
OrtVersion(r) == Strip(IF r.ort_ver # <<>> THEN r.ort_ver ELSE <<"unknown">>)

CacheRoot(r) ==
    LET cache_root_env == Strip(IF r.cache_root # <<>> THEN r.cache_root
                                ELSE r.env.ORT_CACHE_ROOT)
    IN  IF cache_root_env # <<>> THEN PathOf(cache_root_env)
        ELSE default_cache_root(r.env)

ToolSig(r) ==
    compute_toolchain_signature(r.env, OrtVersion(r), r.tests, r.acl, r.xnnpack, r.extra)

\* the digest is twelve hexadecimal characters: always one path component
PersistentBuildDir(r) ==
    PathJoin(CacheRoot(r) \o << <<"build">> >>, OrtVersion(r)) \o <<ToolSig(r)>>

PersistentInstallDir(r) ==
    PathJoin(CacheRoot(r) \o << <<"install">> >>, OrtVersion(r)) \o <<ToolSig(r)>>

\* a fetch cache keyed like the build directory, by the signature too
FetchcontentDirPerSignature(r) ==
    PathJoin(CacheRoot(r) \o << <<"fetchcontent">> >>, OrtVersion(r)) \o <<ToolSig(r)>>

FetchcontentDir(r) ==
    PathJoin(CacheRoot(r) \o << <<"fetchcontent">> >>, OrtVersion(r))

(***************************************************************************)
(* The flags and defines main hands to the configure step.  The results of  *)
(* the compiler probes (compiler_kind, detect_runtime_lib_dir) are the      *)
(* request's probe field: the family the compiler reports and the directory *)
(* found for its runtime library (empty: not found).                        *)
(***************************************************************************)
suppress_warn ==
    << <<"-Wno-unused-parameter">>, <<"-Wno-unused-variable">>,
       <<"-Wno-deprecated-declarations">> >>

suppress_werror ==
    << <<"-Wno-error=unused-parameter">>, <<"-Wno-error=unused-variable">>,
       <<"-Wno-error=deprecated-declarations">> >>

common ==
    << <<"-mcpu=native">>, <<"-mcpu=native">>, <<"-fno-strict-aliasing">>,
       <<"-ffast-math">>, <<"-fno-math-errno">>, <<"-fno-math-errno">>,
       <<"-ffp-contract=fast">>, <<"-w">> >>

CxxBin(r) == Strip(r.env.CXX)

\* whether main runs the compiler probes at all
Probes(r) == r.platform = "darwin" /\ CxxBin(r) # <<>>

StdlibCompile(r) ==
    IF Probes(r) /\ r.probe.kind \in {"clang", "apple-clang"} /\ r.probe.libdir # <<>>
    THEN << <<"-stdlib=libc++">> >>
    ELSE <<>>

StdlibLinker(r) ==
    IF Probes(r) /\ r.probe.kind \in {"clang", "apple-clang"} /\ r.probe.libdir # <<>>
    THEN << <<"-stdlib=libc++">>, <<"-L">> \o r.probe.libdir,
            <<"-Wl,-rpath,">> \o r.probe.libdir >>
    ELSE IF Probes(r) /\ r.probe.kind = "gcc" /\ r.probe.libdir # <<>>
    THEN << <<"-L">> \o r.probe.libdir, <<"-Wl,-rpath,">> \o r.probe.libdir >>
    ELSE <<>>

CFlags(r) ==
    join_flags(<< ListChunk(common), ListChunk(suppress_warn),
                  ListChunk(suppress_werror), StrChunk(r.env.CFLAGS) >>)

CxxFlags(r) ==
    join_flags(<< ListChunk(common), ListChunk(suppress_warn),
                  ListChunk(suppress_werror), ListChunk(StdlibCompile(r)),
                  StrChunk(r.env.CXXFLAGS) >>)

LinkerFlags(r) ==
    join_flags(<< ListChunk(StdlibLinker(r)), StrChunk(r.env.LDFLAGS) >>)

OnOff(toggle) == IF toggle = <<"1">> THEN <<"ON">> ELSE <<"OFF">>

cmake_defines(env, install_dir, fetchcontent_dir, c_flags, cxx_flags, linker_flags, tests, acl, xnnpack) ==
    LET cc == Strip(env.CC)
        cxx == Strip(env.CXX)
        defs ==
            [ CMAKE_BUILD_TYPE |-> <<"Release">>,
              CMAKE_POSITION_INDEPENDENT_CODE |-> <<"ON">>,
              CMAKE_POLICY_VERSION_MINIMUM |-> <<"3.5">>,
              CMAKE_INSTALL_PREFIX |-> PathStr(install_dir),
              FETCHCONTENT_BASE_DIR |-> PathStr(fetchcontent_dir),
              FETCHCONTENT_UPDATES_DISCONNECTED |-> <<"ON">>,
              FETCHCONTENT_TRY_FIND_PACKAGE_MODE |-> <<"NEVER">>,
              CMAKE_SUPPRESS_DEVELOPER_WARNINGS |-> <<"ON">>,
              CMAKE_WARN_DEPRECATED |-> <<"OFF">>,
              CMAKE_ERROR_DEPRECATED |-> <<"OFF">>,
              CMAKE_MESSAGE_LOG_LEVEL |-> <<"ERROR">>,
              CMAKE_VERBOSE_MAKEFILE |-> <<"OFF">>,
              CMAKE_C_FLAGS |-> c_flags,
              CMAKE_CXX_FLAGS |-> cxx_flags,
              CMAKE_EXE_LINKER_FLAGS |-> linker_flags,
              CMAKE_SHARED_LINKER_FLAGS |-> linker_flags,
              CMAKE_MODULE_LINKER_FLAGS |-> linker_flags,
              onnxruntime_BUILD_SHARED_LIB |-> <<"ON">>,
              onnxruntime_ENABLE_PYTHON |-> <<"OFF">>,
              onnxruntime_ENABLE_TRAINING |-> <<"OFF">>,
              onnxruntime_BUILD_APPLE_FRAMEWORK |-> <<"OFF">>,
              onnxruntime_BUILD_UNIT_TESTS |-> OnOff(tests),
              onnxruntime_RUN_ONNX_TESTS |-> OnOff(tests),
              onnxruntime_USE_CUDA |-> <<"OFF">>,
              onnxruntime_USE_ROCM |-> <<"OFF">>,
              onnxruntime_USE_TENSORRT |-> <<"OFF">>,
              onnxruntime_USE_OPENVINO |-> <<"OFF">>,
              onnxruntime_USE_COREML |-> <<"OFF">>,
              onnxruntime_USE_DML |-> <<"OFF">>,
              onnxruntime_DISABLE_ML_OPS |-> <<"ON">>,
              onnxruntime_ENABLE_LTO |-> <<"ON">>,
              onnxruntime_BUILD_FOR_NATIVE_MACHINE |-> <<"ON">>,
              onnxruntime_USE_ACL |-> OnOff(acl),
              onnxruntime_USE_XNNPACK |-> OnOff(xnnpack),
              onnxruntime_USE_MIMALLOC |-> <<"OFF">> ]
    IN  defs @@ (IF cc # <<>> THEN "CMAKE_C_COMPILER" :> cc ELSE <<>>)
             @@ (IF cxx # <<>> THEN "CMAKE_CXX_COMPILER" :> cxx ELSE <<>>)

\* defs as main computes them for request r
Defs(r) ==
    cmake_defines(r.env, PersistentInstallDir(r), FetchcontentDir(r), CFlags(r),
                  CxxFlags(r), LinkerFlags(r), r.tests, r.acl, r.xnnpack)

\* what main appends to the configure command: -D<k>=<v> for every define,
\* then -D<kv> for every extra definition
ConfigureDefines(r) ==
    [defs |-> Defs(r),
     extra |-> parse_extra_defines(r.extra),
     args |-> [i \in 1..Len(parse_extra_defines(r.extra).parts) |->
                  <<"-D">> \o parse_extra_defines(r.extra).parts[i]]]

(***************************************************************************)
(* File names of the install library directory, glob patterns, and the      *)
(* order ensure_soname_symlink sorts candidates by.                         *)
(***************************************************************************)
LibStem == <<"l", "i", "b", "o", "n", "n", "x", "r", "u", "n", "t", "i", "m", "e">>
DotSo == <<".", "s", "o">>
DotDylib == <<".", "d", "y", "l", "i", "b">>

Digits == <<"0", "1", "2", "3", "4", "5", "6", "7", "8", "9">>
IsDigit(c) == \E i \in 1..Len(Digits) : Digits[i] = c
DigitVal(c) == (CHOOSE i \in 1..Len(Digits) : Digits[i] = c) - 1

\* the characters of the file names, in code point order
CodePointOrder ==
    <<"*", ".", "0", "1", "2", "3", "4", "5", "6", "7", "8", "9",
      "a", "b", "d", "e", "i", "l", "m", "n", "o", "r", "s", "t", "u", "x", "y">>
CodeRank(c) == CHOOSE i \in 1..Len(CodePointOrder) : CodePointOrder[i] = c

\* fnmatch of one file name against a pattern whose only special character is *
RECURSIVE GlobMatch(_, _)
GlobMatch(pat, name) ==
    IF pat = <<>> THEN name = <<>>
    ELSE IF Head(pat) = "*"
         THEN \E k \in 0..Len(name) : GlobMatch(Tail(pat), SubSeq(name, k + 1, Len(name)))
         ELSE name # <<>> /\ Head(name) = Head(pat) /\ GlobMatch(Tail(pat), Tail(name))

\* Path.suffix
Suffix(name) ==
    LET dots == {i \in 1..Len(name) : name[i] = "."}
        last == CHOOSE i \in dots : \A j \in dots : j <= i
    IN  IF dots = {} THEN <<>>
        ELSE IF last > 1 /\ last < Len(name) THEN SubSeq(name, last, Len(name))
        ELSE <<>>

\* re.findall(r"\d+", name) as integers: cur is the run being read (-1: none)
RECURSIVE NumericRuns(_, _, _)
NumericRuns(name, cur, acc) ==
    IF name = <<>> THEN (IF cur = -1 THEN acc ELSE Append(acc, cur))
    ELSE IF IsDigit(Head(name))
         THEN NumericRuns(Tail(name),
                          (IF cur = -1 THEN 0 ELSE cur * 10) + DigitVal(Head(name)), acc)
         ELSE NumericRuns(Tail(name), -1,
                          IF cur = -1 THEN acc ELSE Append(acc, cur))

natural_version_key(name) == NumericRuns(name, -1, <<>>)

\* Python's < on tuples of integers
RECURSIVE TupleLess(_, _)
TupleLess(a, b) ==
    IF b = <<>> THEN FALSE
    ELSE IF a = <<>> THEN TRUE
    ELSE IF Head(a) # Head(b) THEN Head(a) < Head(b)
    ELSE TupleLess(Tail(a), Tail(b))

\* Python's < on strings
RECURSIVE StrLess(_, _)
StrLess(a, b) ==
    IF b = <<>> THEN FALSE
    ELSE IF a = <<>> THEN TRUE
    ELSE IF Head(a) # Head(b) THEN CodeRank(Head(a)) < CodeRank(Head(b))
    ELSE StrLess(Tail(a), Tail(b))

\* the sort key (natural_version_key(p), p.name)
SortKeyLess(n1, n2) ==
    LET k1 == natural_version_key(n1)
        k2 == natural_version_key(n2)
    IN  TupleLess(k1, k2) \/ (k1 = k2 /\ StrLess(n1, n2))

\* the last candidate by file name alone
ChosenByName(cands) == CHOOSE c \in cands : \A d \in cands : d = c \/ StrLess(d.name, c.name)

\* candidates[-1] after the sort
Chosen(cands) == CHOOSE c \in cands : \A d \in cands : d = c \/ SortKeyLess(d.name, c.name)

WantName(platform) ==
    IF platform = "darwin" THEN LibStem \o DotDylib ELSE LibStem \o DotSo

SonamePatterns(platform) ==
    IF platform = "darwin" THEN {LibStem \o <<"*">> \o DotDylib}
    ELSE {LibStem \o DotSo \o <<".", "*">>, LibStem \o DotSo}

\* the candidates ensure_soname_symlink collects from the entries of lib_dir
Candidates(platform, entries) ==
    {e \in entries :
        /\ \E pat \in SonamePatterns(platform) : GlobMatch(pat, e.name)
        /\ e.name # WantName(platform)
        /\ Suffix(e.name) # <<".", "a">>
        /\ e.kind \in {"file", "link"}}

\* a check of the directory in place of the canonical name
WantPresentDirOnly(plat, entries) == TRUE

\* a check that takes a regular file alone for the canonical name
WantPresentFileOnly(plat, entries) ==
    \E e \in entries : e.name = WantName(plat) /\ e.kind = "file"

\* want.exists() or want.is_symlink()
WantPresent(plat, entries) == \E e \in entries : e.name = WantName(plat)

\* is_built's glob
BuiltPattern(platform) ==
    IF platform = "darwin" THEN LibStem \o <<"*">> \o DotDylib
    ELSE LibStem \o DotSo \o <<"*">>

(***************************************************************************)
(* The state.                                                               *)
(*   req[p]    the arguments and environment of invocation p                 *)
(*   pc[p]     where invocation p stands in main                             *)
(*   loc[p]    what invocation p has done so far                             *)
(*   platform  sys.platform of the machine                                   *)
(*   dirs      the directories that exist (absolute paths)                   *)
(*   files     the regular files of the build directories (absolute paths)  *)
(*   lib       install directory |-> entries of its lib directory, for the   *)
(*             install directories that have one                             *)
(*   vis       the two caller-visible paths, --build and --install           *)
(*   stamp     whether the stamp file exists                                 *)
(*   runs      how many invocations have started                             *)
(*   res       results of the pure functions applied to the two requests     *)
(*   complete  the install directories whose tree the last install of a run  *)
(*             left after exiting with status zero                           *)
(***************************************************************************)
VARIABLES req, pc, loc, platform, dirs, files, lib, vis, stamp, runs, res, complete

vars == <<req, pc, loc, platform, dirs, files, lib, vis, stamp, runs, res, complete>>

Procs == {1, 2}

Links == {"build", "install"}

\* the directory the two visible paths live in
VisParent == <<Root, <<"w">>, <<"out">>>>

NoEnv ==
    [CC |-> <<>>, CXX |-> <<>>, CFLAGS |-> <<>>, CXXFLAGS |-> <<>>, LDFLAGS |-> <<>>,
     ORT_CACHE_ROOT |-> <<>>, XDG_CACHE_HOME |-> <<>>]

NoProbe == [kind |-> "unknown", libdir |-> <<>>]

BaseReq ==
    [ort_ver |-> <<"1.23.2">>, tests |-> <<"0">>, acl |-> <<"0">>, xnnpack |-> <<"0">>,
     extra |-> <<>>, cache_root |-> <<>>, force |-> FALSE, skip |-> FALSE,
     srcOk |-> TRUE, platform |-> "linux", probe |-> NoProbe, env |-> NoEnv]

\* the locals of a run; pre and fast record what the run found in the cache
\* when it started and whether it took the branch of line 479
NoLoc ==
    [touched |-> FALSE, cause |-> "", ext |-> <<>>, link |-> "build",
     pre |-> FALSE, fast |-> FALSE]

(***************************************************************************)
(* Filesystem helpers.                                                      *)
(***************************************************************************)
IsPrefix(d, p) == Len(d) <= Len(p) /\ SubSeq(p, 1, Len(d)) = d

\* Path.resolve() of a path given to the process
Abs(p) == ResolveFrom(Cwd, p)

\* the directories mkdir(parents=True, exist_ok=True) makes exist
WithParents(p) == {SubSeq(Abs(p), 1, i) : i \in 1..Len(Abs(p))}

\* what shutil.rmtree(d, ignore_errors=True) leaves of a set of paths
Without(paths, d) == {x \in paths : ~IsPrefix(Abs(d), x)}

LibWithout(d) == [x \in {y \in DOMAIN lib : ~IsPrefix(Abs(d), y)} |-> lib[x]]

Absent == [kind |-> "absent", to |-> <<>>]
LinkTo(target) == [kind |-> "link", to |-> target]

\* where a symlink at a visible path leads: its text is read relative to the
\* directory the link lives in
LinkResolves(node) == ResolveFrom(VisParent, node.to)

TargetDir(r, which) ==
    IF which = "build" THEN PersistentBuildDir(r) ELSE PersistentInstallDir(r)

\* files of the install tree: the entries install writes replace those of the same name
Merge(old, new) == {e \in old : \A n \in new : n.name # e.name} \cup new

File(name) == [name |-> name, kind |-> "file", to |-> <<>>]
Symlink(name, to) == [name |-> name, kind |-> "link", to |-> to]

\* a presence check that looks at the lib directory alone
is_built_lib_dir_only(install_dir) == Abs(install_dir) \in DOMAIN lib

\* is_built(install_dir)
is_built(install_dir) ==
    /\ Abs(install_dir) \in DOMAIN lib
    /\ \E e \in lib[Abs(install_dir)] : GlobMatch(BuiltPattern(platform), e.name)

(***************************************************************************)
(* The toolchain prober.  A child process ends as [status, out]: status is  *)
(* "missing" (no such binary), "fail" (non-zero exit) or "ok".  The answers *)
(* of the compiler and the files that exist are the world w of a probe:     *)
(*   w.version     the process <cxx> --version                              *)
(*   w.fileName    libname |-> the process <cxx> -print-file-name=libname   *)
(*   w.searchDirs  the process <cxx> -print-search-dirs; its output is the  *)
(*                 sequence of its lines, a line being its label, whether   *)
(*                 it holds "=", and the colon-separated parts behind it    *)
(*   w.fs          the absolute paths that exist                            *)
(***************************************************************************)
\* a capture that hands back the output of a failed process too
run_capture_any_status(proc) == IF proc.status = "missing" THEN <<>> ELSE Strip(proc.out)

\* run_capture: the stripped output, the empty string if the process failed
run_capture(proc) == IF proc.status = "ok" THEN Strip(proc.out) ELSE <<>>

\* str.lower() on the letters of the version texts
Lower(s) ==
    [i \in 1..Len(s) |->
        IF s[i] = "A" THEN "a" ELSE IF s[i] = "C" THEN "c" ELSE IF s[i] = "G" THEN "g"
        ELSE s[i]]

\* needle in s
HasSub(s, needle) ==
    \E i \in 0..(Len(s) - Len(needle)) : SubSeq(s, i + 1, i + Len(needle)) = needle

compiler_kind(cxx_bin, w) ==
    LET ver == Lower(run_capture(w.version))
    IN  IF cxx_bin = <<>> THEN "unknown"
        ELSE IF HasSub(ver, <<"a", "p", "p", "l", "e", " ", "c", "l", "a", "n", "g">>) THEN "apple-clang"
        ELSE IF HasSub(ver, <<"c", "l", "a", "n", "g">>) THEN "clang"
        ELSE IF HasSub(ver, <<"g", "c", "c">>) \/ HasSub(ver, <<"g", "+", "+">>) THEN "gcc"
        ELSE "unknown"

Parent(p) == SubSeq(p, 1, Len(p) - 1)

\* Path.exists()
Exists(w, p) == Abs(p) \in w.fs

\* the existing directories of the parts of one line
RECURSIVE ExistingParts(_, _)
ExistingParts(w, parts) ==
    IF parts = <<>> THEN <<>>
    ELSE LET part == Strip(Head(parts))
             here == IF part # <<>> /\ Exists(w, PathOf(part)) THEN <<PathOf(part)>> ELSE <<>>
         IN  here \o ExistingParts(w, Tail(parts))

RECURSIVE SearchDirsOfLines(_, _)
SearchDirsOfLines(w, lines) ==
    IF lines = <<>> THEN <<>>
    ELSE LET line == Head(lines)
             here == IF line.label = "libraries:" /\ line.eq
                     THEN ExistingParts(w, line.parts) ELSE <<>>
         IN  here \o SearchDirsOfLines(w, Tail(lines))

\* _candidate_dirs_from_search_dirs
candidate_dirs_from_search_dirs(w) ==
    IF w.searchDirs.status = "ok" THEN SearchDirsOfLines(w, w.searchDirs.out) ELSE <<>>

StartsWith(s, prefix) == Len(s) >= Len(prefix) /\ SubSeq(s, 1, Len(prefix)) = prefix

\* _candidate_dirs_from_compiler_prefix
candidate_dirs_from_compiler_prefix(cxx_bin, w) ==
    LET cxx_path == Abs(PathOf(cxx_bin))
        name == cxx_path[Len(cxx_path)]
        prefix == Parent(Parent(cxx_path))
        guesses == << prefix \o << <<"lib">> >>, prefix \o << <<"lib">>, <<"c++">> >>,
                      prefix \o << <<"lib">>, <<"unwind">> >> >>
    IN  IF StartsWith(name, <<"c", "l", "a", "n", "g">>) \/ name \in {<<"g", "+", "+">>, <<"g", "c", "c">>}
        THEN SelectSeq(guesses, LAMBDA g : Exists(w, g))
        ELSE <<>>

\* step 1 of detect_runtime_lib_dir: <<>> where no libname resolves
RECURSIVE AskCompiler(_, _)
AskCompiler(libnames, w) ==
    IF libnames = <<>> THEN <<>>
    ELSE LET cand == run_capture(w.fileName[Head(libnames)])
         IN  IF cand # <<>> /\ IsAbs(PathOf(cand)) /\ Exists(w, PathOf(cand))
             THEN Parent(PathOf(cand))
             ELSE AskCompiler(Tail(libnames), w)

\* step 2 of detect_runtime_lib_dir: the first directory, duplicates skipped,
\* that holds one of the libnames
RECURSIVE FirstWithLib(_, _, _, _)
FirstWithLib(dirlist, seen, libnames, w) ==
    IF dirlist = <<>> THEN <<>>
    ELSE LET d == Head(dirlist)
         IN  IF Abs(d) \in seen THEN FirstWithLib(Tail(dirlist), seen, libnames, w)
             ELSE IF \E i \in 1..Len(libnames) : Exists(w, d \o <<libnames[i]>>) THEN d
             ELSE FirstWithLib(Tail(dirlist), seen \cup {Abs(d)}, libnames, w)

\* detect_runtime_lib_dir: the directory, or <<>> for None
detect_runtime_lib_dir(cxx_bin, libnames, w) ==
    IF cxx_bin = <<>> THEN <<>>
    ELSE IF AskCompiler(libnames, w) # <<>> THEN AskCompiler(libnames, w)
    ELSE FirstWithLib(candidate_dirs_from_search_dirs(w)
                         \o candidate_dirs_from_compiler_prefix(cxx_bin, w),
                      {}, libnames, w)

ClangLibs == << <<"libc++.dylib">>, <<"libc++.1.dylib">>, <<"libc++.1.0.dylib">> >>
GccLibs == << <<"libstdc++.dylib">>, <<"libstdc++.6.dylib">>, <<"libstdc++.a">> >>

LibNamesOf(kind) ==
    IF kind \in {"clang", "apple-clang"} THEN ClangLibs
    ELSE IF kind = "gcc" THEN GccLibs ELSE <<>>

\* lines 422-445: what the probes of request r find in world w
ProbeResult(r, w) ==
    IF ~Probes(r) THEN NoProbe
    ELSE LET kind == compiler_kind(CxxBin(r), w)
             found == detect_runtime_lib_dir(CxxBin(r), LibNamesOf(kind), w)
         IN  [kind |-> kind,
              libdir |-> IF LibNamesOf(kind) = <<>> \/ found = <<>> THEN <<>>
                         ELSE PathStr(found)]

(***************************************************************************)
(* The requests of the runs and what the external install step may write.   *)
(***************************************************************************)
AbsRootArg == <<"/", "c">>
RelRootArg == <<"c">>

\* the cache keys of the runs: two signatures under an absolute cache root,
\* and a relative cache root
KeyRequests ==
    { [BaseReq EXCEPT !.cache_root = AbsRootArg, !.platform = platform],
      [BaseReq EXCEPT !.cache_root = AbsRootArg, !.tests = <<"1">>, !.platform = platform],
      [BaseReq EXCEPT !.cache_root = RelRootArg, !.platform = platform] }

\* every key with and without --force and --skip-if-built; a malformed
\* --extra, with CXX unset and set, and a source tree without
\* cmake/CMakeLists.txt, each with and without --force
SpecRequests ==
    {[r EXCEPT !.force = f, !.skip = k] : r \in KeyRequests, f \in BOOLEAN, k \in BOOLEAN}
    \cup {[BaseReq EXCEPT !.cache_root = AbsRootArg, !.platform = platform,
                          !.extra = <<"a">>, !.force = f, !.env.CXX = cxx] :
              f \in BOOLEAN, cxx \in {<<>>, <<"a">>}}
    \cup {[BaseReq EXCEPT !.cache_root = AbsRootArg, !.platform = platform,
                          !.srcOk = FALSE, !.force = f] : f \in BOOLEAN}

VersionedName(plat) ==
    IF plat = "darwin" THEN LibStem \o <<".", "1", ".", "2", "3", ".", "2">> \o DotDylib
    ELSE LibStem \o DotSo \o <<".", "1", ".", "2", "3", ".", "2">>

\* nothing (no lib directory), an empty lib directory, the versioned library
\* alone, or the versioned library with the canonical name linked to it
InstallWrites(plat) ==
    { [lib |-> FALSE, entries |-> {}],
      [lib |-> TRUE, entries |-> {}],
      [lib |-> TRUE, entries |-> {File(VersionedName(plat))}],
      [lib |-> TRUE, entries |-> {File(VersionedName(plat)),
                                  Symlink(WantName(plat), VersionedName(plat))}] }

\* what an install that exits non-zero part-way may leave besides the above:
\* the canonical name linked to a versioned library it did not get to write
PartialInstallWrites(plat) ==
    { [lib |-> TRUE, entries |-> {Symlink(WantName(plat), VersionedName(plat))}] }

\* whether the cache holds build files or an install lib directory for the
\* key of request r
CacheContents(r) ==
    \/ \E f \in files : IsPrefix(Abs(PersistentBuildDir(r)), f)
    \/ Abs(PersistentInstallDir(r)) \in DOMAIN lib

(***************************************************************************)
(* main, one action per step.                                               *)
(***************************************************************************)
Goto(p, label) == pc' = [pc EXCEPT ![p] = label]

Fail(p, cause) ==
    /\ pc' = [pc EXCEPT ![p] = "failed"]
    /\ loc' = [loc EXCEPT ![p].cause = cause]

\* invocation p has run the external command what, which exited with status zero or not
Ran(p, what, ok) == [loc EXCEPT ![p].ext = Append(@, [cmd |-> what, ok |-> ok])]

\* a new invocation of the script
Start(p) ==
    /\ pc[p] \in {"idle", "done", "failed"}
    /\ runs < MaxRuns
    /\ runs' = runs + 1
    /\ \E r \in SpecRequests :
          /\ req' = [req EXCEPT ![p] = r]
          /\ loc' = [loc EXCEPT ![p] = [NoLoc EXCEPT !.pre = CacheContents(r)]]
    /\ Goto(p, "check_src")
    /\ UNCHANGED <<platform, dirs, files, lib, vis, stamp, res, complete>>

\* lines 359-361
CheckSrc(p) ==
    /\ pc[p] = "check_src"
    /\ IF req[p].srcOk THEN Goto(p, "wipe") /\ UNCHANGED loc ELSE Fail(p, "src")
    /\ UNCHANGED <<req, platform, dirs, files, lib, vis, stamp, runs, res, complete>>

\* a forced rebuild that wipes the build directory alone
ForceWipeBuildOnly(p) ==
    /\ pc[p] = "wipe"
    /\ IF req[p].force
       THEN /\ dirs' = Without(dirs, PersistentBuildDir(req[p]))
            /\ files' = Without(files, PersistentBuildDir(req[p]))
            /\ UNCHANGED <<lib, complete>>
       ELSE UNCHANGED <<dirs, files, lib, complete>>
    /\ Goto(p, "mkdirs")
    /\ UNCHANGED <<req, loc, platform, vis, stamp, runs, res>>

\* a forced rebuild that waits until no other invocation is at work on the
\* cache
ForceWipeLocked(p) ==
    /\ pc[p] = "wipe"
    /\ \A q \in Procs \ {p} : pc[q] \in {"idle", "check_src", "done", "failed"}
    /\ IF req[p].force
       THEN /\ dirs' = Without(Without(dirs, PersistentBuildDir(req[p])),
                               PersistentInstallDir(req[p]))
            /\ files' = Without(files, PersistentBuildDir(req[p]))
            /\ lib' = LibWithout(PersistentInstallDir(req[p]))
            /\ complete' = Without(complete, PersistentInstallDir(req[p]))
       ELSE UNCHANGED <<dirs, files, lib, complete>>
    /\ Goto(p, "mkdirs")
    /\ UNCHANGED <<req, loc, platform, vis, stamp, runs, res>>

\* a forced rebuild that wipes the fetch cache of the version as well
ForceWipeWithFetch(p) ==
    /\ pc[p] = "wipe"
    /\ IF req[p].force
       THEN /\ dirs' = Without(Without(Without(dirs, PersistentBuildDir(req[p])),
                                       PersistentInstallDir(req[p])),
                               FetchcontentDir(req[p]))
            /\ files' = Without(files, PersistentBuildDir(req[p]))
            /\ lib' = LibWithout(PersistentInstallDir(req[p]))
            /\ complete' = Without(complete, PersistentInstallDir(req[p]))
       ELSE UNCHANGED <<dirs, files, lib, complete>>
    /\ Goto(p, "mkdirs")
    /\ UNCHANGED <<req, loc, platform, vis, stamp, runs, res>>

\* lines 379-382
ForceWipe(p) ==
    /\ pc[p] = "wipe"
    /\ IF req[p].force
       THEN /\ dirs' = Without(Without(dirs, PersistentBuildDir(req[p])),
                               PersistentInstallDir(req[p]))
            /\ files' = Without(files, PersistentBuildDir(req[p]))
            /\ lib' = LibWithout(PersistentInstallDir(req[p]))
            /\ complete' = Without(complete, PersistentInstallDir(req[p]))
       ELSE UNCHANGED <<dirs, files, lib, complete>>
    /\ Goto(p, "mkdirs")
    /\ UNCHANGED <<req, loc, platform, vis, stamp, runs, res>>

\* lines 384-386
Mkdirs(p) ==
    /\ pc[p] = "mkdirs"
    /\ dirs' = dirs \cup WithParents(PersistentBuildDir(req[p]))
                    \cup WithParents(PersistentInstallDir(req[p]))
                    \cup WithParents(FetchcontentDir(req[p]))
    /\ loc' = [loc EXCEPT ![p].link = "build"]
    /\ Goto(p, "ln_parent")
    /\ UNCHANGED <<req, platform, files, lib, vis, stamp, runs, res, complete>>

\* what follows ensure_symlink's return: the second link, then the rest of main
AfterLink(p) ==
    IF loc[p].link = "build"
    THEN /\ loc' = [loc EXCEPT ![p].link = "install"]
         /\ Goto(p, "ln_parent")
    ELSE /\ UNCHANGED loc
         /\ Goto(p, "probe")

\* ensure_symlink, line 153
LnParent(p) ==
    /\ pc[p] = "ln_parent"
    /\ dirs' = dirs \cup WithParents(VisParent)
    /\ Goto(p, "ln_check")
    /\ UNCHANGED <<req, loc, platform, files, lib, vis, stamp, runs, res, complete>>

\* ensure_symlink, lines 156-168
LnCheck(p) ==
    LET which == loc[p].link
        node == vis[which]
        target == TargetDir(req[p], which)
    IN  /\ pc[p] = "ln_check"
        /\ IF node.kind = "link" /\ LinkResolves(node) = Abs(target)
           THEN AfterLink(p) /\ UNCHANGED vis
           ELSE /\ vis' = [vis EXCEPT ![which] = Absent]
                /\ Goto(p, "ln_create")
                /\ UNCHANGED loc
        /\ UNCHANGED <<req, platform, dirs, files, lib, stamp, runs, res, complete>>

\* ensure_symlink, line 170
LnCreate(p) ==
    LET which == loc[p].link
    IN  /\ pc[p] = "ln_create"
        /\ IF vis[which].kind = "absent"
           THEN /\ vis' = [vis EXCEPT ![which] = LinkTo(TargetDir(req[p], which))]
                /\ AfterLink(p)
           ELSE Fail(p, "symlink") /\ UNCHANGED vis
        /\ UNCHANGED <<req, platform, dirs, files, lib, stamp, runs, res, complete>>

\* lines 422-445: the compiler probes are external processes
Probe(p) ==
    /\ pc[p] = "probe"
    /\ loc' = IF Probes(req[p]) THEN Ran(p, "probe", TRUE) ELSE loc
    /\ Goto(p, "parse_extra")
    /\ UNCHANGED <<req, platform, dirs, files, lib, vis, stamp, runs, res, complete>>

\* lines 474-475
ParseExtra(p) ==
    /\ pc[p] = "parse_extra"
    /\ IF parse_extra_defines(req[p].extra).ok
       THEN Goto(p, "decide") /\ UNCHANGED loc
       ELSE Fail(p, "extra")
    /\ UNCHANGED <<req, platform, dirs, files, lib, vis, stamp, runs, res, complete>>

\* a decision taken on what the cache held when the run started
DecideOnEntry(p) ==
    /\ pc[p] = "decide"
    /\ IF req[p].skip /\ loc[p].pre
       THEN Goto(p, "check_lib") /\ loc' = [loc EXCEPT ![p].fast = TRUE]
       ELSE Goto(p, "configure") /\ UNCHANGED loc
    /\ UNCHANGED <<req, platform, dirs, files, lib, vis, stamp, runs, res, complete>>

\* line 478
Decide(p) ==
    /\ pc[p] = "decide"
    /\ IF req[p].skip /\ is_built(PersistentInstallDir(req[p]))
       THEN Goto(p, "check_lib") /\ loc' = [loc EXCEPT ![p].fast = TRUE]
       ELSE Goto(p, "configure") /\ UNCHANGED loc
    /\ UNCHANGED <<req, platform, dirs, files, lib, vis, stamp, runs, res, complete>>

\* a configure step whose exit status is not looked at
ConfigureUnchecked(p) ==
    /\ pc[p] = "configure"
    /\ dirs' = dirs \cup WithParents(PersistentBuildDir(req[p]))
    /\ files' = files \cup {Abs(PersistentBuildDir(req[p])) \o << <<"CMakeCache.txt">> >>}
    /\ \E ok \in BOOLEAN : loc' = Ran(p, "configure", ok)
    /\ Goto(p, "build")
    /\ UNCHANGED <<req, platform, lib, vis, stamp, runs, res, complete>>

\* line 481: cmake -S ... -B ... creates the build directory and its cache file
Configure(p) ==
    /\ pc[p] = "configure"
    /\ dirs' = dirs \cup WithParents(PersistentBuildDir(req[p]))
    /\ files' = files \cup {Abs(PersistentBuildDir(req[p])) \o << <<"CMakeCache.txt">> >>}
    /\ \E ok \in BOOLEAN :
          IF ok THEN Goto(p, "build") /\ loc' = Ran(p, "configure", TRUE)
          ELSE /\ pc' = [pc EXCEPT ![p] = "failed"]
               /\ loc' = [Ran(p, "configure", FALSE) EXCEPT ![p].cause = "configure"]
    /\ UNCHANGED <<req, platform, lib, vis, stamp, runs, res, complete>>

\* a build step whose exit status is not looked at
BuildUnchecked(p) ==
    /\ pc[p] = "build"
    /\ \E ok \in BOOLEAN : loc' = Ran(p, "build", ok)
    /\ Goto(p, "install")
    /\ UNCHANGED <<req, platform, dirs, files, lib, vis, stamp, runs, res, complete>>

\* lines 482-485
Build(p) ==
    /\ pc[p] = "build"
    /\ \E ok \in BOOLEAN :
          IF ok THEN Goto(p, "install") /\ loc' = Ran(p, "build", TRUE)
          ELSE /\ pc' = [pc EXCEPT ![p] = "failed"]
               /\ loc' = [Ran(p, "build", FALSE) EXCEPT ![p].cause = "build"]
    /\ UNCHANGED <<req, platform, dirs, files, lib, vis, stamp, runs, res, complete>>

\* line 486: cmake --install writes into the install prefix, and may stop part-way
Install(p) ==
    LET inst == Abs(PersistentInstallDir(req[p]))
        old == IF inst \in DOMAIN lib THEN lib[inst] ELSE {}
    IN  /\ pc[p] = "install"
        /\ dirs' = dirs \cup WithParents(PersistentInstallDir(req[p]))
        /\ \E ok \in BOOLEAN :
              /\ \E w \in InstallWrites(platform)
                            \cup (IF ok THEN {} ELSE PartialInstallWrites(platform)) :
                    lib' = IF w.lib THEN (inst :> Merge(old, w.entries)) @@ lib ELSE lib
              /\ complete' = IF ok THEN complete \cup {inst} ELSE complete \ {inst}
              /\ IF ok THEN Goto(p, "check_lib") /\ loc' = Ran(p, "install", TRUE)
                 ELSE /\ pc' = [pc EXCEPT ![p] = "failed"]
                      /\ loc' = [Ran(p, "install", FALSE) EXCEPT ![p].cause = "install"]
        /\ UNCHANGED <<req, platform, files, vis, stamp, runs, res>>

\* lines 488-490
CheckLib(p) ==
    /\ pc[p] = "check_lib"
    /\ IF Abs(PersistentInstallDir(req[p])) \in DOMAIN lib
       THEN Goto(p, "soname") /\ UNCHANGED loc
       ELSE Fail(p, "nolibdir")
    /\ UNCHANGED <<req, platform, dirs, files, lib, vis, stamp, runs, res, complete>>

\* whether shutil.copy2 can read the entry: a file, or a link that leads to one
RECURSIVE LeadsToFile(_, _, _)
LeadsToFile(entries, e, fuel) ==
    \/ e.kind = "file"
    \/ /\ e.kind = "link"
       /\ fuel > 0
       /\ \E t \in entries : t.name = e.to /\ LeadsToFile(entries, t, fuel - 1)

\* ensure_soname_symlink, line 492
Soname(p) ==
    LET inst == Abs(PersistentInstallDir(req[p]))
        entries == IF inst \in DOMAIN lib THEN lib[inst] ELSE {}
        cands == Candidates(platform, entries)
        want == WantName(platform)
    IN  /\ pc[p] = "soname"
        /\ IF WantPresent(platform, entries)
           THEN Goto(p, "stamp") /\ UNCHANGED <<lib, loc>>
           ELSE IF cands = {}
           THEN Fail(p, "nocand") /\ UNCHANGED lib
           ELSE \/ /\ inst \in DOMAIN lib
                   /\ lib' = [lib EXCEPT ![inst] = @ \cup {Symlink(want, Chosen(cands).name)}]
                   /\ Goto(p, "stamp") /\ UNCHANGED loc
                \/ /\ inst \in DOMAIN lib
                   /\ LeadsToFile(entries, Chosen(cands), Cardinality(entries))
                   /\ lib' = [lib EXCEPT ![inst] = @ \cup {File(want)}]
                   /\ Goto(p, "stamp") /\ UNCHANGED loc
                \/ /\ ~LeadsToFile(entries, Chosen(cands), Cardinality(entries))
                   /\ Fail(p, "copy") /\ UNCHANGED lib
        /\ UNCHANGED <<req, platform, dirs, files, vis, stamp, runs, res, complete>>

\* line 493
TouchStamp(p) ==
    /\ pc[p] = "stamp"
    /\ stamp' = TRUE
    /\ loc' = [loc EXCEPT ![p].touched = TRUE]
    /\ Goto(p, "done")
    /\ UNCHANGED <<req, platform, dirs, files, lib, vis, runs, res, complete>>

Step(p) ==
    \/ Start(p) \/ CheckSrc(p) \/ ForceWipe(p) \/ Mkdirs(p)
    \/ LnParent(p) \/ LnCheck(p) \/ LnCreate(p)
    \/ Probe(p) \/ ParseExtra(p) \/ Decide(p)
    \/ Configure(p) \/ Build(p) \/ Install(p)
    \/ CheckLib(p) \/ Soname(p) \/ TouchStamp(p)

NoRes == [stage |-> "none", sig |-> <<>>, fsig |-> <<>>, build |-> <<>>, install |-> <<>>,
          fetch |-> <<>>, cfg |-> <<>>, root |-> <<>>, world |-> <<>>,
          chunks |-> <<>>, flags |-> <<>>, flagsOfLists |-> <<>>]

\* what the visible paths may be before the first run
InitVis ==
    { [l \in Links |-> Absent],
      [l \in Links |-> [kind |-> "file", to |-> <<>>]],
      [l \in Links |-> [kind |-> "dir", to |-> <<>>]],
      [l \in Links |-> LinkTo(<<Root, <<"old">>>>)] }

Init ==
    /\ platform \in {"linux", "darwin"}
    /\ req = [p \in Procs |-> [BaseReq EXCEPT !.platform = platform]]
    /\ pc = [p \in Procs |-> "idle"]
    /\ loc = [p \in Procs |-> NoLoc]
    /\ \E parent \in BOOLEAN :
          /\ dirs = {<<Root>>, Cwd} \cup (IF parent THEN {VisParent} ELSE {})
          /\ vis \in (IF parent THEN InitVis ELSE {[l \in Links |-> Absent]})
    /\ files = {}
    /\ lib = <<>>
    /\ stamp = FALSE
    /\ runs = 0
    /\ res = [p \in Procs |-> NoRes]
    /\ complete = {}

\* one invocation at a time
Next == \E p \in {1} : Step(p)

Spec == Init /\ [][Next]_vars

(***************************************************************************)
(* The pure part of main applied to two requests: the signature, the        *)
(* persistent directories, and what is handed to the configure step.        *)
(***************************************************************************)
ArgFields == {"ort_ver", "extra", "cache_root"}
EnvFields == {"CC", "CXX", "CFLAGS", "CXXFLAGS", "LDFLAGS", "ORT_CACHE_ROOT"}

\* the value of an argument or of an environment variable of request r
Field(r, f) == IF f \in EnvFields THEN r.env[f] ELSE r[f]

WithField(r, f, v) ==
    IF f \in EnvFields THEN [r EXCEPT !.env[f] = v] ELSE [r EXCEPT ![f] = v]

ToggleValues == {<<"0">>, <<"1">>}

\* a request on Linux, and one on macOS whose compiler probes found libc++
PureBases ==
    { BaseReq,
      [BaseReq EXCEPT !.platform = "darwin", !.env.CXX = <<"a">>,
                      !.probe = [kind |-> "clang", libdir |-> <<"/", "l">>]] }

\* the base request of the first and of the second request of a pair
PickBase(p) ==
    IF p = 1 THEN BaseReq
    ELSE [BaseReq EXCEPT !.platform = "darwin", !.env.CXX = <<"a">>,
                         !.probe = [kind |-> "clang", libdir |-> <<"/", "l">>]]

\* two requests that differ in one argument or environment variable, or in
\* their feature toggles
PureRequestPairs ==
    {<<WithField(b, f, va), WithField(b, f, vb)>> :
        b \in PureBases, f \in ArgFields \cup EnvFields, va \in Strings, vb \in Strings}
    \cup
    {<<[b EXCEPT !.tests = ta[1], !.acl = ta[2], !.xnnpack = ta[3]],
       [b EXCEPT !.tests = tb[1], !.acl = tb[2], !.xnnpack = tb[3]]>> :
        b \in PureBases,
        ta \in ToggleValues \X ToggleValues \X ToggleValues,
        tb \in ToggleValues \X ToggleValues \X ToggleValues}

PureInit ==
    /\ \E pair \in PureRequestPairs : req = [p \in Procs |-> pair[p]]
    /\ res = [p \in Procs |-> NoRes]
    /\ pc = [p \in Procs |-> "idle"]
    /\ loc = [p \in Procs |-> NoLoc]
    /\ platform = "linux"
    /\ dirs = {<<Root>>, Cwd}
    /\ files = {}
    /\ lib = <<>>
    /\ vis = [l \in Links |-> Absent]
    /\ stamp = FALSE
    /\ runs = 0
    /\ complete = {}

PureFrame == UNCHANGED <<req, pc, loc, platform, dirs, files, lib, vis, stamp, runs, complete>>

\* lines 366-372, and compute_toolchain_signature on the arguments as given
ApplySignature ==
    /\ \A p \in Procs : res[p].stage = "none"
    /\ res' = [p \in Procs |->
                 [res[p] EXCEPT !.stage = "sig",
                                !.sig = ToolSig(req[p]),
                                !.fsig = compute_toolchain_signature(
                                             req[p].env, req[p].ort_ver, req[p].tests,
                                             req[p].acl, req[p].xnnpack, req[p].extra)]]
    /\ PureFrame

\* lines 375-377
ApplyDirs ==
    /\ \A p \in Procs : res[p].stage = "sig"
    /\ res' = [p \in Procs |->
                 [res[p] EXCEPT !.stage = "dirs",
                                !.build = PersistentBuildDir(req[p]),
                                !.install = PersistentInstallDir(req[p]),
                                !.fetch = FetchcontentDir(req[p])]]
    /\ PureFrame

\* lines 418-475
ApplyConfig ==
    /\ \A p \in Procs : res[p].stage = "dirs"
    /\ res' = [p \in Procs |->
                 [res[p] EXCEPT !.stage = "cfg", !.cfg = ConfigureDefines(req[p])]]
    /\ PureFrame

PureNext == ApplySignature \/ ApplyDirs \/ ApplyConfig

SpecPure == PureInit /\ [][PureNext]_vars

\* lines 481-486
CmakeOrder == <<"configure", "build", "install">>

\* shared-library file names of the install lib directory
NameWithVersion(plat, v) ==
    IF plat = "darwin" THEN LibStem \o <<".">> \o v \o DotDylib
    ELSE LibStem \o DotSo \o <<".">> \o v

V_1_2_0 == <<"1", ".", "2", ".", "0">>
V_1_9_0 == <<"1", ".", "9", ".", "0">>
V_01_9_0 == <<"0", "1", ".", "9", ".", "0">>
V_1_23_2 == <<"1", ".", "2", "3", ".", "2">>
V_1 == <<"1">>

\* what ensure_soname_symlink may find in lib_dir: versioned libraries, a
\* soname link, the canonical name as a file or as a link, and on Linux a
\* static archive whose name matches the candidate pattern
LibEntries(plat) ==
    { File(NameWithVersion(plat, V_1_2_0)), File(NameWithVersion(plat, V_1_9_0)),
      File(NameWithVersion(plat, V_01_9_0)), File(NameWithVersion(plat, V_1_23_2)),
      Symlink(NameWithVersion(plat, V_1), NameWithVersion(plat, V_1_23_2)),
      File(WantName(plat)),
      Symlink(WantName(plat), NameWithVersion(plat, V_1_23_2)) }
    \cup (IF plat = "darwin" THEN {}
          ELSE {File(LibStem \o DotSo \o <<".", "9", ".", "a">>)})

LibRequest == [BaseReq EXCEPT !.cache_root = AbsRootArg, !.platform = platform]

\* a run that has configured, built and installed, at the call of line 492,
\* for every content of the install lib directory
LibInit ==
    /\ platform \in {"linux", "darwin"}
    /\ req = [p \in Procs |-> LibRequest]
    /\ pc = [p \in Procs |-> IF p = 1 THEN "soname" ELSE "idle"]
    /\ loc = [p \in Procs |->
                IF p = 1
                THEN [NoLoc EXCEPT !.ext = [i \in 1..3 |-> [cmd |-> CmakeOrder[i], ok |-> TRUE]],
                                   !.link = "install"]
                ELSE NoLoc]
    /\ \E entries \in SUBSET LibEntries(platform) :
          /\ \A e1 \in entries : \A e2 \in entries : e1.name = e2.name => e1 = e2
          /\ lib = (Abs(PersistentInstallDir(LibRequest)) :> entries)
    /\ dirs = {<<Root>>, Cwd} \cup WithParents(VisParent)
                \cup WithParents(PersistentBuildDir(LibRequest))
                \cup WithParents(PersistentInstallDir(LibRequest))
                \cup WithParents(FetchcontentDir(LibRequest))
    /\ files = {Abs(PersistentBuildDir(LibRequest)) \o << <<"CMakeCache.txt">> >>}
    /\ vis = [l \in Links |-> LinkTo(TargetDir(LibRequest, l))]
    /\ stamp = FALSE
    /\ runs = 1
    /\ res = [p \in Procs |-> NoRes]
    /\ complete = {Abs(PersistentInstallDir(LibRequest))}

LibNext == Soname(1) \/ TouchStamp(1)

SpecLib == LibInit /\ [][LibNext]_vars

\* the compilers of the probes: /p/b/clang++, /p/b/g++ and /p/b/c++
ProbeCompilers ==
    { <<"/", "p", "/", "b", "/">> \o <<"c", "l", "a", "n", "g", "+", "+">>,
      <<"/", "p", "/", "b", "/">> \o <<"g", "+", "+">>,
      <<"/", "p", "/", "b", "/">> \o <<"c", "+", "+">> }

\* how <cxx> --version may end
VersionOutcomes ==
    { [status |-> "missing", out |-> <<>>],
      [status |-> "fail", out |-> <<"c", "l", "a", "n", "g">>],
      [status |-> "ok", out |-> <<>>],
      [status |-> "ok", out |-> <<"A", "p", "p", "l", "e", " ", "c", "l", "a", "n", "g">>],
      [status |-> "ok", out |-> <<" ", "c", "l", "a", "n", "g">>],
      [status |-> "ok", out |-> <<"g", "+", "+", " ", "G", "C", "C">>],
      [status |-> "ok", out |-> <<"i", "c", "c">>] }

\* the directories that exist in every world: /s and /q, which a compiler
\* may report as search directories, and the prefix /p of the compilers
ProbeDirs ==
    { <<Root>>, <<Root, <<"s">>>>, <<Root, <<"q">>>>, <<Root, <<"p">>>>,
      <<Root, <<"p">>, <<"lib">>>>, <<Root, <<"p">>, <<"b">>>> }

\* where the first and the second libname of a family may exist
ProbeFiles(libs) ==
    [g1 |-> <<Root, <<"g">>, libs[1]>>, s1 |-> <<Root, <<"s">>, libs[1]>>,
     q2 |-> <<Root, <<"q">>, libs[2]>>, lib1 |-> <<Root, <<"p">>, <<"lib">>, libs[1]>>,
     cxx2 |-> <<Root, <<"p">>, <<"lib">>, <<"c++">>, libs[2]>>]

FileSlots == {"g1", "s1", "q2", "lib1", "cxx2"}

\* how -print-file-name=<libname> may end: failed, nothing printed, the
\* bare name echoed back, or a path under dir
FileNameOutcome(form, dir, libname) ==
    IF form = "fail" THEN [status |-> "fail", out |-> <<"/", dir, "/">> \o libname]
    ELSE IF form = "empty" THEN [status |-> "ok", out |-> <<>>]
    ELSE IF form = "echo" THEN [status |-> "ok", out |-> libname]
    ELSE [status |-> "ok", out |-> <<"/", dir, "/">> \o libname]

SearchDirsOutcomes ==
    { [status |-> "fail", out |-> <<>>],
      [status |-> "ok", out |-> <<>>],
      [status |-> "ok",
       out |-> << [label |-> "install:", eq |-> TRUE, parts |-> << <<"/", "s">> >>] >>],
      [status |-> "ok",
       out |-> << [label |-> "libraries:", eq |-> FALSE, parts |-> <<>>] >>],
      [status |-> "ok",
       out |-> << [label |-> "programs:", eq |-> TRUE, parts |-> << <<"/", "p", "/", "b">> >>],
                  [label |-> "libraries:", eq |-> TRUE,
                   parts |-> << <<"/", "s">>, <<" ">>, <<"/", "x">>, <<"/", "q">> >>] >>],
      [status |-> "ok",
       out |-> << [label |-> "libraries:", eq |-> TRUE,
                   parts |-> << <<" ", "/", "q">>, <<"/", "q">>, <<"/", "s">> >>] >>] }

\* the files of the chosen slots, for both families, with their directories
FilesOfSlots(slots) ==
    UNION {{SubSeq(ProbeFiles(libs)[k], 1, i) : i \in 1..Len(ProbeFiles(libs)[k])} :
              k \in slots, libs \in {ClangLibs, GccLibs}}

\* the worlds of the probes
ProbeWorlds ==
    { [version |-> v,
       fileName |-> [n \in {ClangLibs[i] : i \in 1..3} \cup {GccLibs[i] : i \in 1..3} |->
                       IF n \in {ClangLibs[1], GccLibs[1]} THEN FileNameOutcome(f1, "g", n)
                       ELSE IF n \in {ClangLibs[2], GccLibs[2]} THEN FileNameOutcome(f2, "q", n)
                       ELSE FileNameOutcome("echo", "q", n)],
       searchDirs |-> sd,
       fs |-> FilesOfSlots(slots) \cup ProbeDirs] :
        v \in VersionOutcomes, f1 \in {"fail", "empty", "echo", "abs"}, f2 \in {"echo", "abs"},
        sd \in SearchDirsOutcomes, slots \in SUBSET FileSlots }

\* a request on macOS for every compiler and every world of its probes
ProbeInit ==
    /\ \E cxx \in ProbeCompilers, w \in ProbeWorlds :
             /\ req = [p \in Procs |-> [BaseReq EXCEPT !.platform = "darwin", !.env.CXX = cxx]]
             /\ res = [p \in Procs |-> [NoRes EXCEPT !.world = w]]
    /\ pc = [p \in Procs |-> "idle"]
    /\ loc = [p \in Procs |-> NoLoc]
    /\ platform = "darwin"
    /\ dirs = {<<Root>>, Cwd}
    /\ files = {}
    /\ lib = <<>>
    /\ vis = [l \in Links |-> Absent]
    /\ stamp = FALSE
    /\ runs = 0
    /\ complete = {}

\* lines 422-445
ApplyProbe ==
    /\ \A p \in Procs : res[p].stage = "none"
    /\ req' = [p \in Procs |-> [req[p] EXCEPT !.probe = ProbeResult(req[p], res[p].world)]]
    /\ res' = [p \in Procs |-> [res[p] EXCEPT !.stage = "probe"]]
    /\ UNCHANGED <<pc, loc, platform, dirs, files, lib, vis, stamp, runs, complete>>

\* lines 447-459
ApplyFlags ==
    /\ \A p \in Procs : res[p].stage = "probe"
    /\ res' = [p \in Procs |->
                 [res[p] EXCEPT !.stage = "flags", !.cfg = ConfigureDefines(req[p])]]
    /\ PureFrame

ProbeNext == ApplyProbe \/ ApplyFlags

SpecProbe == ProbeInit /\ [][ProbeNext]_vars

\* two invocations at the same time on one cache root, version and
\* signature: the first with --force, the second without, with or without
\* --skip-if-built
RaceRequests(p) ==
    IF p = 1
    THEN {[BaseReq EXCEPT !.cache_root = AbsRootArg, !.platform = platform, !.force = TRUE]}
    ELSE {[BaseReq EXCEPT !.cache_root = AbsRootArg, !.platform = platform, !.skip = k] :
              k \in BOOLEAN}

StartRace(p) ==
    /\ pc[p] \in {"idle", "done", "failed"}
    /\ runs < MaxRuns
    /\ runs' = runs + 1
    /\ \E r \in RaceRequests(p) :
          /\ req' = [req EXCEPT ![p] = r]
          /\ loc' = [loc EXCEPT ![p] = [NoLoc EXCEPT !.pre = CacheContents(r)]]
    /\ Goto(p, "check_src")
    /\ UNCHANGED <<platform, dirs, files, lib, vis, stamp, res, complete>>

RaceStep(p) ==
    \/ StartRace(p) \/ CheckSrc(p) \/ ForceWipe(p) \/ Mkdirs(p)
    \/ LnParent(p) \/ LnCheck(p) \/ LnCreate(p)
    \/ Probe(p) \/ ParseExtra(p) \/ Decide(p)
    \/ Configure(p) \/ Build(p) \/ Install(p)
    \/ CheckLib(p) \/ Soname(p) \/ TouchStamp(p)

\* the steps of the two processes interleave: nothing in main takes a lock
RaceNext == \E p \in Procs : RaceStep(p)

SpecRace == Init /\ [][RaceNext]_vars

\* the --ort-ver strings: the short strings, and the text "unknown" given
\* by the caller, bare and padded
VersionTexts == Strings \cup { <<"unknown">>, <<" ", "unknown", " ">> }

\* the first request leaves --ort-ver out, the second gives it; both have
\* the same cache root and the same other inputs
VersionInit ==
    /\ \E b \in PureBases, v \in VersionTexts, c \in Strings :
          req = [p \in Procs |->
                   IF p = 1 THEN [b EXCEPT !.ort_ver = <<>>, !.cache_root = c]
                   ELSE [b EXCEPT !.ort_ver = v, !.cache_root = c]]
    /\ res = [p \in Procs |-> NoRes]
    /\ pc = [p \in Procs |-> "idle"]
    /\ loc = [p \in Procs |-> NoLoc]
    /\ platform = "linux"
    /\ dirs = {<<Root>>, Cwd}
    /\ files = {}
    /\ lib = <<>>
    /\ vis = [l \in Links |-> Absent]
    /\ stamp = FALSE
    /\ runs = 0
    /\ complete = {}

SpecVersion == VersionInit /\ [][PureNext]_vars

\* the entries of the token lists and the raw strings given to join_flags
FlagEntries == { <<>>, <<" ">>, <<"a">>, <<"b">>, <<" ", "a">> }

FlagTexts ==
    { <<>>, <<" ">>, <<"a">>, <<"a", " ", "b">>, <<" ", "b", " ", " ", "a", " ">>,
      <<"b", " ", "b">> }

\* the sequences of at most n elements of set
RECURSIVE SeqsUpTo(_, _)
SeqsUpTo(set, n) ==
    IF n = 0 THEN {<<>>}
    ELSE LET shorter == SeqsUpTo(set, n - 1)
         IN  shorter \cup {Append(q, x) : q \in {t \in shorter : Len(t) = n - 1}, x \in set}

\* a group is a raw string or a list of at most two entries
FlagGroups ==
    {StrChunk(t) : t \in FlagTexts} \cup {ListChunk(l) : l \in SeqsUpTo(FlagEntries, 2)}

\* a raw-string group given as the list of its whitespace-separated tokens
AsList(c) == IF c.isList THEN c ELSE ListChunk(SplitWS(c.val))

FlagsInit ==
    /\ \E chunks \in SeqsUpTo(FlagGroups, MaxGroups) :
          res = [p \in Procs |-> [NoRes EXCEPT !.chunks = chunks]]
    /\ req = [p \in Procs |-> BaseReq]
    /\ pc = [p \in Procs |-> "idle"]
    /\ loc = [p \in Procs |-> NoLoc]
    /\ platform = "linux"
    /\ dirs = {<<Root>>, Cwd}
    /\ files = {}
    /\ lib = <<>>
    /\ vis = [l \in Links |-> Absent]
    /\ stamp = FALSE
    /\ runs = 0
    /\ complete = {}

\* join_flags on the groups as given, and on the groups with every raw
\* string replaced by the list of its tokens
ApplyJoinFlags ==
    /\ \A p \in Procs : res[p].stage = "none"
    /\ res' = [p \in Procs |->
                 [res[p] EXCEPT
                     !.stage = "joined",
                     !.flags = join_flags(res[p].chunks),
                     !.flagsOfLists =
                         join_flags([i \in 1..Len(res[p].chunks) |-> AsList(res[p].chunks[i])])]]
    /\ PureFrame

SpecFlags == FlagsInit /\ [][ApplyJoinFlags]_vars

\* a request for every --cache-root, ORT_CACHE_ROOT and XDG_CACHE_HOME
RootInit ==
    /\ \E arg \in Strings, ort \in Strings, xdg \in Strings :
          req = [p \in Procs |->
                   [BaseReq EXCEPT !.cache_root = arg, !.env.ORT_CACHE_ROOT = ort,
                                   !.env.XDG_CACHE_HOME = xdg]]
    /\ res = [p \in Procs |-> NoRes]
    /\ pc = [p \in Procs |-> "idle"]
    /\ loc = [p \in Procs |-> NoLoc]
    /\ platform = "linux"
    /\ dirs = {<<Root>>, Cwd}
    /\ files = {}
    /\ lib = <<>>
    /\ vis = [l \in Links |-> Absent]
    /\ stamp = FALSE
    /\ runs = 0
    /\ complete = {}

\* lines 363-364
ApplyCacheRoot ==
    /\ \A p \in Procs : res[p].stage = "none"
    /\ res' = [p \in Procs |-> [res[p] EXCEPT !.stage = "root", !.root = CacheRoot(req[p])]]
    /\ PureFrame

SpecRoot == RootInit /\ [][ApplyCacheRoot]_vars

\* a request for every --extra string, on both platforms
ExtraInit ==
    /\ \E e \in ExtraStrings :
          req = [p \in Procs |-> [PickBase(p) EXCEPT !.extra = e]]
    /\ res = [p \in Procs |-> NoRes]
    /\ pc = [p \in Procs |-> "idle"]
    /\ loc = [p \in Procs |-> NoLoc]
    /\ platform = "linux"
    /\ dirs = {<<Root>>, Cwd}
    /\ files = {}
    /\ lib = <<>>
    /\ vis = [l \in Links |-> Absent]
    /\ stamp = FALSE
    /\ runs = 0
    /\ complete = {}

SpecExtra == ExtraInit /\ [][PureNext]_vars

(***************************************************************************)
(* Properties.                                                              *)
(***************************************************************************)
InstallLib(p) == Abs(PersistentInstallDir(req[p]))

LibDirExists(p) == InstallLib(p) \in DOMAIN lib

\* the canonical library name is an entry of the install lib directory
CanonicalEntry(p) ==
    /\ LibDirExists(p)
    /\ \E e \in lib[InstallLib(p)] :
          e.name = (IF platform = "darwin" THEN LibStem \o DotDylib ELSE LibStem \o DotSo)

Exited(p, cmd, ok) == \E i \in 1..Len(loc[p].ext) : loc[p].ext[i] = [cmd |-> cmd, ok |-> ok]

Failed(p) == pc[p] = "failed" /\ ~loc[p].touched

\* C1: a run has touched the stamp only with the install lib directory in
\* place and the canonical shared-library entry in it
C1_StampOnlyAfterLibraryConfirmed ==
    \A p \in Procs : loc[p].touched => LibDirExists(p) /\ CanonicalEntry(p)

\* a run that built and installed, got its canonical name from
\* ensure_soname_symlink, and touched the stamp
C1_Witness ==
    /\ loc[1].touched
    /\ Exited(1, "install", TRUE)
    /\ [name |-> LibStem \o DotSo, kind |-> "link", to |-> VersionedName("linux")]
          \in lib[InstallLib(1)]

\* C2: each of the five failure causes ends the run in the error outcome,
\* and a run that ended in the error outcome has not touched the stamp
C2_FailureLeavesStampUntouched ==
    \A p \in Procs :
        /\ pc[p] = "failed" => ~loc[p].touched
        /\ (pc[p] \notin {"idle", "check_src"} /\ ~req[p].srcOk) => Failed(p)
        /\ (pc[p] \in {"decide", "configure", "build", "install", "check_lib", "soname",
                       "stamp", "done", "failed"}
              /\ ~parse_extra_defines(req[p].extra).ok) => Failed(p)
        /\ (\E c \in {"configure", "build", "install"} : Exited(p, c, FALSE)) => Failed(p)
        /\ (pc[p] \in {"soname", "stamp", "done", "failed"} /\ ~LibDirExists(p)) => Failed(p)
        /\ (pc[p] \in {"stamp", "done", "failed"} /\ ~CanonicalEntry(p)) => Failed(p)

\* a run that found no candidate for the canonical name fails while the
\* stamp of an earlier run exists
C2_Witness ==
    /\ pc[1] = "failed"
    /\ loc[1].cause = "nocand"
    /\ Exited(1, "install", TRUE)
    /\ stamp
    /\ ~loc[1].touched

PureDone(stage) == \A p \in Procs : res[p].stage \in stage

\* the defines C3 lists: compiler selection, C and C++ flags, the three
\* linker-flag defines, the feature toggles
ListedDefines ==
    {"CMAKE_C_COMPILER", "CMAKE_CXX_COMPILER", "CMAKE_C_FLAGS", "CMAKE_CXX_FLAGS",
     "CMAKE_EXE_LINKER_FLAGS", "CMAKE_SHARED_LINKER_FLAGS", "CMAKE_MODULE_LINKER_FLAGS",
     "onnxruntime_BUILD_UNIT_TESTS", "onnxruntime_RUN_ONNX_TESTS",
     "onnxruntime_USE_ACL", "onnxruntime_USE_XNNPACK"}

SameDefine(d1, d2, k) ==
    /\ (k \in DOMAIN d1) = (k \in DOMAIN d2)
    /\ k \in DOMAIN d1 => d1[k] = d2[k]

\* C3: two requests with the same signature (same platform, same probe
\* results) hand the configure step the same listed defines and the same
\* extra definitions
C3_SameSignatureSameConfiguration ==
    (/\ PureDone({"cfg"})
     /\ req[1].platform = req[2].platform
     /\ req[1].probe = req[2].probe
     /\ res[1].sig = res[2].sig)
    => /\ \A k \in ListedDefines : SameDefine(res[1].cfg.defs, res[2].cfg.defs, k)
       /\ res[1].cfg.extra = res[2].cfg.extra

\* the requests differ in the environment variable f alone, by more than
\* surrounding whitespace
EnvChanged(f) ==
    /\ Strip(req[1].env[f]) # Strip(req[2].env[f])
    /\ [req[1] EXCEPT !.env[f] = req[2].env[f]] = req[2]

\* C4: a change of any one of CC, CXX, CFLAGS, CXXFLAGS, LDFLAGS,
\* ORT_CACHE_ROOT changes the signature, and with it the persistent build
\* and install directories
C4_EnvironmentFoldedIntoSignature ==
    PureDone({"dirs", "cfg"}) =>
        \A f \in EnvFields :
            EnvChanged(f) => /\ res[1].sig # res[2].sig
                             /\ res[1].build # res[2].build
                             /\ res[1].install # res[2].install

\* the nine inputs of compute_toolchain_signature
SigFields ==
    {"ort_ver", "CC", "CXX", "CFLAGS", "CXXFLAGS", "tests", "acl", "xnnpack", "extra"}

DifferOnlyIn(f) ==
    /\ Field(req[1], f) # Field(req[2], f)
    /\ \A g \in SigFields \ {f} : Field(req[1], g) = Field(req[2], g)

\* the value of input f with surrounding whitespace dropped, for the five
\* inputs whose surrounding whitespace does not count
Trimmed(f, v) ==
    IF f \in {"CC", "CXX", "CFLAGS", "CXXFLAGS", "extra"} THEN RStrip(LStrip(v)) ELSE v

\* C5 as stated: inputs that differ in exactly one of the nine, by any
\* difference in the string, have different signatures; inputs that differ in
\* none have the same
C5_AnyDifferenceChangesSignature ==
    PureDone({"sig", "dirs", "cfg"}) =>
        /\ \A f \in SigFields : DifferOnlyIn(f) => res[1].fsig # res[2].fsig
        /\ (\A g \in SigFields : Field(req[1], g) = Field(req[2], g))
              => res[1].fsig = res[2].fsig

\* C5 amended: inputs that differ in exactly one of the nine have different
\* signatures exactly when the two values differ by more than surrounding
\* whitespace (CC, CXX, CFLAGS, CXXFLAGS, extra) or at all (version, toggles);
\* inputs that differ in none have the same
C5_TrimmedDifferenceChangesSignature ==
    PureDone({"sig", "dirs", "cfg"}) =>
        /\ \A f \in SigFields :
              DifferOnlyIn(f) =>
                 ((res[1].fsig # res[2].fsig)
                     = (Trimmed(f, Field(req[1], f)) # Trimmed(f, Field(req[2], f))))
        /\ (\A g \in SigFields : Field(req[1], g) = Field(req[2], g))
              => res[1].fsig = res[2].fsig

\* two values of CFLAGS that differ in surrounding whitespace alone, and one
\* signature
C5_Witness ==
    /\ PureDone({"sig"})
    /\ DifferOnlyIn("CFLAGS")
    /\ Strip(req[1].env.CFLAGS) = Strip(req[2].env.CFLAGS)
    /\ Strip(req[1].env.CFLAGS) # <<>>
    /\ res[1].fsig = res[2].fsig

Toggles(r) == <<r.tests, r.acl, r.xnnpack>>

DifferOnlyInToggles ==
    /\ Toggles(req[1]) # Toggles(req[2])
    /\ [req[1] EXCEPT !.tests = req[2].tests, !.acl = req[2].acl,
                      !.xnnpack = req[2].xnnpack] = req[2]

\* C7: requests that differ in feature toggles alone have different build
\* directories, different install directories and one fetch-cache directory;
\* requests with one cache root and one version have one fetch-cache directory
C7_CacheIsolation ==
    PureDone({"dirs", "cfg"}) =>
        /\ DifferOnlyInToggles => /\ res[1].build # res[2].build
                                  /\ res[1].install # res[2].install
                                  /\ res[1].fetch = res[2].fetch
        /\ (CacheRoot(req[1]) = CacheRoot(req[2]) /\ OrtVersion(req[1]) = OrtVersion(req[2]))
              => res[1].fetch = res[2].fetch

\* two requests that differ in two toggles, with their directories computed
C7_Witness ==
    /\ PureDone({"dirs"})
    /\ DifferOnlyInToggles
    /\ req[1].tests # req[2].tests
    /\ req[1].xnnpack # req[2].xnnpack
    /\ res[1].build # res[2].build
    /\ res[1].fetch = res[2].fetch

\* C8: when a run has ended with the stamp touched, each visible path is a
\* symlink that resolves to the persistent directory of that run
C8_LinksResolveToPersistentDirs ==
    \A p \in Procs :
        pc[p] = "done" =>
            \A w \in Links : /\ vis[w].kind = "link"
                             /\ LinkResolves(vis[w]) = Abs(TargetDir(req[p], w))

\* C9: a visible path that is a symlink stays a symlink through every step,
\* resolving to where it did or to the persistent directory of the run
C9_RedirectionAtomic ==
    [][\A w \in Links :
          vis[w].kind = "link" =>
              /\ vis'[w].kind = "link"
              /\ \/ LinkResolves(vis'[w]) = LinkResolves(vis[w])
                 \/ \E p \in Procs : LinkResolves(vis'[w]) = Abs(TargetDir(req'[p], w))]_vars

\* C10: ensure_symlink called on the link an earlier call made for the same
\* target finds it resolving to the target and modifies nothing
C10_SecondCallIsNoOp ==
    [][\A p \in Procs :
          (/\ pc[p] = "ln_check"
           /\ vis[loc[p].link] = LinkTo(TargetDir(req[p], loc[p].link)))
          => /\ LinkResolves(vis[loc[p].link]) = Abs(TargetDir(req[p], loc[p].link))
             /\ vis' = vis]_vars

\* C11: whatever the visible path was before, when ensure_symlink returns
\* the path is a symlink that resolves to the persistent directory it was
\* called with, and the parent of the path exists
C11_EnsureSymlinkPostcondition ==
    [][\A p \in Procs :
          (pc[p] \in {"ln_check", "ln_create"} /\ pc'[p] \in {"ln_parent", "probe"})
          => /\ vis'[loc[p].link].kind = "link"
             /\ LinkResolves(vis'[loc[p].link]) = Abs(TargetDir(req[p], loc[p].link))
             /\ VisParent \in dirs']_vars

\* the labels of a run between the wipe of a forced rebuild and its first
\* cmake invocation
BeforeExternal ==
    {"mkdirs", "ln_parent", "ln_check", "ln_create", "probe", "parse_extra", "decide",
     "configure"}

NoCmake(p) ==
    \A i \in 1..Len(loc[p].ext) : loc[p].ext[i].cmd \notin {"configure", "build", "install"}

ArtifactPresent(p) ==
    /\ LibDirExists(p)
    /\ \E e \in lib[InstallLib(p)] : GlobMatch(BuiltPattern(platform), e.name)

\* C13: a run with --skip-if-built and without --force that finds a
\* shared-library artifact in its install lib directory takes the skip
\* branch; a run that took it has invoked no configure, build or install,
\* does not fail, and has touched the stamp when it ends
C13_SkipFastPath ==
    /\ [](\A p \in Procs :
            loc[p].fast => /\ NoCmake(p)
                           /\ pc[p] # "failed"
                           /\ pc[p] = "done" => loc[p].touched /\ stamp)
    /\ [][\A p \in Procs :
             (pc[p] = "decide" /\ req[p].skip /\ ~req[p].force /\ ArtifactPresent(p))
             => pc'[p] = "check_lib" /\ loc'[p].fast]_vars

\* a run that skipped on the tree an earlier run installed, and ended with
\* the stamp touched
C13_Witness ==
    /\ loc[1].fast
    /\ pc[1] = "done"
    /\ loc[1].touched
    /\ NoCmake(1)
    /\ InstallLib(1) \in complete

\* the cmake invocations of a run, in the order they were made
CmakeRuns(p) == SelectSeq(loc[p].ext, LAMBDA e : e.cmd # "probe")

\* C14: the cmake invocations of a run are configure, build, install in
\* that order, each made only after the one before it exited with status
\* zero; a run in which one of them exited non-zero has failed at once,
\* without normalizing the output or touching the stamp, and a run that did
\* not skip reaches the normalization only after all three succeeded
C14_StrictExternalOrder ==
    \A p \in Procs :
        LET s == CmakeRuns(p)
        IN  /\ Len(s) <= 3
            /\ \A i \in 1..Len(s) : s[i].cmd = CmakeOrder[i]
            /\ \A i \in 1..(Len(s) - 1) : s[i].ok
            /\ (Len(s) > 0 /\ ~s[Len(s)].ok) => pc[p] = "failed" /\ ~loc[p].touched
            /\ pc[p] = "configure" => Len(s) = 0
            /\ pc[p] = "build" => Len(s) = 1
            /\ pc[p] = "install" => Len(s) = 2
            /\ (pc[p] \in {"check_lib", "soname", "stamp", "done"} /\ ~loc[p].fast)
                  => Len(s) = 3 /\ s[3].ok

\* a run whose configure succeeded and whose build exited non-zero
C14_Witness ==
    /\ pc[1] = "failed"
    /\ CmakeRuns(1) = <<[cmd |-> "configure", ok |-> TRUE], [cmd |-> "build", ok |-> FALSE]>>
    /\ ~loc[1].touched

\* C15: a run skips, or touches the stamp, only on an install tree written
\* by a run whose configure, build and install all exited with status zero
C15_NoPartialSuccessCached ==
    \A p \in Procs : (loc[p].fast \/ loc[p].touched) => InstallLib(p) \in complete

\* C16: a run whose --extra holds an entry without "=" fails before it has
\* started any external process, compiler probes included
C16_ExtraValidatedBeforeAnyProcess ==
    \A p \in Procs :
        ~parse_extra_defines(req[p].extra).ok =>
            /\ loc[p].ext = <<>>
            /\ pc[p] \notin {"decide", "configure", "build", "install", "check_lib",
                              "soname", "stamp", "done"}

\* the text of s from position i up to the next ";" or the end of s
RECURSIVE SegmentEnd(_, _)
SegmentEnd(s, i) == IF i > Len(s) \/ s[i] = ";" THEN i ELSE SegmentEnd(s, i + 1)

\* s without the blanks at its two ends
Trim(s) ==
    LET inked == {i \in 1..Len(s) : s[i] # " "}
    IN  IF inked = {} THEN <<>>
        ELSE SubSeq(s, CHOOSE i \in inked : \A j \in inked : i <= j,
                       CHOOSE i \in inked : \A j \in inked : i >= j)

\* the non-blank semicolon-separated segments of s from position i on,
\* trimmed, in the order they stand in s
RECURSIVE EntriesFrom(_, _)
EntriesFrom(s, i) ==
    LET j == SegmentEnd(s, i)
        entry == Trim(SubSeq(s, i, j - 1))
        rest == IF j > Len(s) THEN <<>> ELSE EntriesFrom(s, j + 1)
    IN  IF entry = <<>> THEN rest ELSE <<entry>> \o rest

\* C17: for an --extra whose non-blank segments all hold "=", the parser
\* returns those segments, trimmed, in input order and nothing else; for a
\* blank --extra it returns the empty list; configure gets one -D argument
\* per returned entry, in that order
C17_WellFormedExtraParsed ==
    PureDone({"cfg"}) =>
        \A p \in Procs :
            LET expected == EntriesFrom(req[p].extra, 1)
            IN  (\A i \in 1..Len(expected) : \E k \in 1..Len(expected[i]) : expected[i][k] = "=")
                => /\ res[p].cfg.extra.ok
                   /\ res[p].cfg.extra.parts = expected
                   /\ res[p].cfg.args = [i \in 1..Len(expected) |-> <<"-D">> \o expected[i]]
                   /\ Trim(req[p].extra) = <<>> => res[p].cfg.extra.parts = <<>>

\* " a=;=" parsed into its two entries
C17_Witness ==
    /\ PureDone({"cfg"})
    /\ req[1].extra = <<" ", "a", "=", ";", "=">>
    /\ res[1].cfg.extra.parts = << <<"a", "=">>, <<"=">> >>
    /\ res[1].cfg.args = << <<"-D", "a", "=">>, <<"-D", "=">> >>

\* a comes before b in the element-wise numeric lexicographic order
NumLexLess(a, b) ==
    \E k \in 0..Len(b) - 1 :
        /\ k <= Len(a)
        /\ \A i \in 1..k : a[i] = b[i]
        /\ k = Len(a) \/ a[k + 1] < b[k + 1]

\* no candidate has a greater tuple of numeric runs than t, and none with
\* the same tuple has a greater file name
Greatest(t, cands) ==
    \A c \in cands :
        \/ c = t
        \/ NumLexLess(natural_version_key(c.name), natural_version_key(t.name))
        \/ /\ natural_version_key(c.name) = natural_version_key(t.name)
           /\ StrLess(c.name, t.name)

\* C18: the canonical name ensure_soname_symlink links is linked to the
\* candidate with the greatest tuple of numeric runs, the greatest file name
\* among equal tuples; among 1.2.0, 1.23.2 and 1.9.0 that is 1.23.2
C18_GreatestVersionChosen ==
    [][\A p \in Procs :
          (pc[p] = "soname" /\ pc'[p] = "stamp")
          => \A e \in lib'[InstallLib(p)] \ lib[InstallLib(p)] :
                e.kind = "link" =>
                   \E t \in Candidates(platform, lib[InstallLib(p)]) :
                      /\ e.to = t.name
                      /\ Greatest(t, Candidates(platform, lib[InstallLib(p)]))
                      /\ ({NameWithVersion(platform, V_1_2_0),
                           NameWithVersion(platform, V_1_9_0),
                           NameWithVersion(platform, V_1_23_2)}
                             \subseteq {c.name : c \in Candidates(platform, lib[InstallLib(p)])}
                          => t.name = NameWithVersion(platform, V_1_23_2))]_vars

\* 1.9.0 chosen over 1.2.0 and over 01.9.0, whose numeric runs are the same
C18_Witness ==
    /\ pc[1] = "stamp"
    /\ lib[InstallLib(1)] =
          { File(NameWithVersion(platform, V_1_2_0)), File(NameWithVersion(platform, V_1_9_0)),
            File(NameWithVersion(platform, V_01_9_0)),
            Symlink(WantName(platform), NameWithVersion(platform, V_1_9_0)) }

\* the canonical name of the install lib directory of the run is a regular
\* file, or a symlink that leads to one in that directory
CanonicalResolves(p) ==
    /\ LibDirExists(p)
    /\ \E e \in lib[InstallLib(p)] :
          /\ e.name = WantName(platform)
          /\ LeadsToFile(lib[InstallLib(p)], e, Cardinality(lib[InstallLib(p)]))

\* C19: when a run has ended with the stamp touched, built or skipped, the
\* canonical name is in the install lib directory as a regular file or as
\* a symlink that resolves to a file of that directory
C19_CanonicalLibraryResolves ==
    \A p \in Procs : pc[p] = "done" => CanonicalResolves(p)

\* C20: ensure_soname_symlink called with the canonical name in the
\* directory, as a file or as a symlink, dangling or not, returns without
\* an error and leaves the directory as it was
C20_SonameNoOpWhenCanonicalPresent ==
    [][\A p \in Procs :
          (pc[p] = "soname" /\ CanonicalEntry(p))
          => /\ pc'[p] = "stamp"
             /\ lib' = lib
             /\ loc'[p].cause = ""]_vars

\* the call returned on a directory that holds the canonical name as a
\* dangling symlink and nothing to choose from
C20_Witness ==
    /\ pc[1] = "stamp"
    /\ lib[InstallLib(1)] = {Symlink(WantName(platform), NameWithVersion(platform, V_1_23_2))}
    /\ loc[1].cause = ""

\* a value that names a cache root: not empty and not blank
Supplied(v) == \E i \in 1..Len(v) : v[i] # " "

\* C21: the cache root is the --cache-root argument when one is supplied,
\* else ORT_CACHE_ROOT when that is supplied, else idet/onnxruntime under
\* XDG_CACHE_HOME when set and under ~/.cache when not
C21_CacheRootPriority ==
    PureDone({"root"}) =>
        \A p \in Procs :
            LET arg == req[p].cache_root
                ort == req[p].env.ORT_CACHE_ROOT
                xdg == req[p].env.XDG_CACHE_HOME
                under == << <<"idet">>, <<"onnxruntime">> >>
            IN  res[p].root =
                   IF Supplied(arg) THEN PathOf(Trim(arg))
                   ELSE IF Supplied(ort) THEN PathOf(Trim(ort))
                   ELSE IF xdg # <<>> THEN PathOf(xdg) \o under
                   ELSE Home \o << <<".cache">> >> \o under

\* the libnames the probes of the run look for
ProbedLibs(p) == LibNamesOf(compiler_kind(CxxBin(req[p]), res[p].world))

\* the compiler answered -print-file-name=n with an absolute path that exists
Resolved(w, n) ==
    /\ w.fileName[n].status = "ok"
    /\ Trim(w.fileName[n].out) # <<>>
    /\ Head(Trim(w.fileName[n].out)) = "/"
    /\ PathOf(Trim(w.fileName[n].out)) \in w.fs

\* the first element of ds that satisfies Test, <<>> if none does
FirstOf(ds, Test(_)) ==
    IF \E i \in 1..Len(ds) : Test(ds[i])
    THEN ds[CHOOSE i \in 1..Len(ds) : Test(ds[i]) /\ \A j \in 1..(i - 1) : ~Test(ds[j])]
    ELSE <<>>

\* the directory the three steps of the probe lead to, in their order of
\* priority: the parent of the first resolved libname, else the first
\* reported search directory that exists and holds a libname, else the first
\* of <prefix>/lib, lib/c++, lib/unwind that exists and holds one
ExpectedLibDir(p) ==
    LET w == res[p].world
        libs == ProbedLibs(p)
        HoldsLib(d) == d \in w.fs /\ \E i \in 1..Len(libs) : (d \o <<libs[i]>>) \in w.fs
        IsResolved(n) == Resolved(w, n)
        prefix == Parent(Parent(PathOf(Trim(req[p].env.CXX))))
        step1 == FirstOf(libs, IsResolved)
        step2 == FirstOf(candidate_dirs_from_search_dirs(w), HoldsLib)
        step3 == FirstOf(<< prefix \o << <<"lib">> >>, prefix \o << <<"lib">>, <<"c++">> >>,
                            prefix \o << <<"lib">>, <<"unwind">> >> >>, HoldsLib)
    IN  IF step1 # <<>> THEN Parent(PathOf(Trim(w.fileName[step1].out)))
        ELSE IF step2 # <<>> THEN step2
        ELSE step3

\* C22: detect_runtime_lib_dir returns the directory of the first of its
\* three steps that succeeds, and nothing exactly when all three fail
C22_ProbeStepsInPriorityOrder ==
    PureDone({"probe", "flags"}) =>
        \A p \in Procs :
            ProbedLibs(p) # <<>> =>
                req[p].probe.libdir =
                    (IF ExpectedLibDir(p) = <<>> THEN <<>> ELSE PathStr(ExpectedLibDir(p)))

\* the defines that carry compile and linker flags
FlagDefines ==
    {"CMAKE_C_FLAGS", "CMAKE_CXX_FLAGS", "CMAKE_EXE_LINKER_FLAGS",
     "CMAKE_SHARED_LINKER_FLAGS", "CMAKE_MODULE_LINKER_FLAGS"}

\* no -stdlib, -L or -rpath flag is in a flag string handed to configure
NoRuntimeLibFlags(p) ==
    \A k \in FlagDefines \cap DOMAIN res[p].cfg.defs :
        \A i \in 1..Len(res[p].cfg.defs[k]) :
            res[p].cfg.defs[k][i] \notin {"-stdlib=libc++", "-L", "-Wl,-rpath,"}

\* the probes of the run came to nothing: the compiler binary is missing or
\* exited non-zero, its version text is empty or names no known family, or
\* no runtime library exists anywhere
ProbeCameToNothing(p) ==
    LET w == res[p].world
    IN  \/ w.version.status # "ok"
        \/ Trim(w.version.out) \in {<<>>, <<"i", "c", "c">>}
        \/ \A f \in w.fs : \A i \in 1..3 : f[Len(f)] \notin {ClangLibs[i], GccLibs[i]}

\* C23: whatever the compiler probes come to, the flag strings and the
\* configure command are assembled; when the probes came to nothing they
\* hold no runtime-library flag
C23_ProbeFailureNotFatal ==
    PureDone({"flags"}) =>
        \A p \in Procs :
            /\ res[p].cfg.extra.ok
            /\ \A k \in FlagDefines \ {"CMAKE_EXE_LINKER_FLAGS", "CMAKE_SHARED_LINKER_FLAGS",
                                       "CMAKE_MODULE_LINKER_FLAGS"} : k \in DOMAIN res[p].cfg.defs
            /\ ProbeCameToNothing(p) => NoRuntimeLibFlags(p) /\ req[p].probe.libdir = <<>>

\* clang++ exited non-zero on --version while libc++ is in <prefix>/lib: the
\* flags are assembled without runtime-library flags
C23_Witness ==
    /\ PureDone({"flags"})
    /\ res[1].world.version.status = "fail"
    /\ <<Root, <<"p">>, <<"lib">>, ClangLibs[1]>> \in res[1].world.fs
    /\ req[1].env.CXX = <<"/", "p", "/", "b", "/", "c", "l", "a", "n", "g", "+", "+">>
    /\ NoRuntimeLibFlags(1)

\* the text of s from position i up to the next blank or the end of s
RECURSIVE WordEnd(_, _)
WordEnd(s, i) == IF i > Len(s) \/ s[i] = " " THEN i ELSE WordEnd(s, i + 1)

\* the words of s from position i on
RECURSIVE WordsFrom(_, _)
WordsFrom(s, i) ==
    IF i > Len(s) THEN <<>>
    ELSE IF s[i] = " " THEN WordsFrom(s, i + 1)
    ELSE <<SubSeq(s, i, WordEnd(s, i) - 1)>> \o WordsFrom(s, WordEnd(s, i))

\* the tokens of the groups from group i on: the non-blank entries of a
\* list as given, the words of a raw string
RECURSIVE TokensFrom(_, _)
TokensFrom(chunks, i) ==
    IF i > Len(chunks) THEN <<>>
    ELSE (IF chunks[i].isList
          THEN SelectSeq(chunks[i].val, LAMBDA x : Trim(x) # <<>>)
          ELSE WordsFrom(chunks[i].val, 1)) \o TokensFrom(chunks, i + 1)

\* tokens with one blank between neighbours
RECURSIVE Spaced(_)
Spaced(toks) ==
    IF toks = <<>> THEN <<>>
    ELSE IF Len(toks) = 1 THEN toks[1]
    ELSE toks[1] \o <<" ">> \o Spaced(Tail(toks))

\* C24: join_flags returns the tokens of its groups, in group order and in
\* token order, duplicates kept and blank entries skipped, with one blank
\* between neighbours; a raw string gives what the list of its words gives
C24_JoinFlagsContract ==
    PureDone({"joined"}) =>
        \A p \in Procs :
            /\ res[p].flags = Spaced(TokensFrom(res[p].chunks, 1))
            /\ res[p].flagsOfLists = res[p].flags

\* a list with a blank entry and a raw string with a duplicate and blanks
\* around its words, joined
C24_Witness ==
    /\ PureDone({"joined"})
    /\ res[1].chunks = << ListChunk(<< <<"a">>, <<" ">> >>),
                          StrChunk(<<" ", "b", " ", " ", "a", " ">>) >>
    /\ res[1].flags = <<"a", " ", "b", " ", "a">>

\* C25: a request without --ort-ver has the version component and signature
\* input "unknown", and a request that gives a version string, whatever its
\* value, has other persistent build, install and fetch directories
C25_MissingVersionOwnBucket ==
    (PureDone({"dirs", "cfg"}) /\ req[1].ort_ver = <<>> /\ req[2].ort_ver # <<>>) =>
        /\ OrtVersion(req[1]) = <<"unknown">>
        /\ res[1].build # res[2].build
        /\ res[1].install # res[2].install
        /\ res[1].fetch # res[2].fetch

\* the persistent build and install directories of the key of invocation p
OwnDirs(p) == {Abs(PersistentBuildDir(req[p])), Abs(PersistentInstallDir(req[p]))}

\* the steps of main that are file operations of the script itself; the
\* cmake invocations are not
OwnSteps == {"wipe", "mkdirs", "ln_parent", "ln_check", "ln_create", "soname", "stamp"}

\* C26: a step of a run removes a directory, a build file or an install lib
\* directory only in the wipe of a forced run, and then only at or below the
\* build and install directories of the key of the run; the fetch directory
\* of the version stays, and no file operation of the script removes an
\* entry of an install lib directory that stays
C26_ArtifactsPersistUntilForced ==
    [][\A p \in Procs :
          (pc[p] \notin {"idle", "done", "failed"} /\ pc'[p] # pc[p]) =>
              /\ \A x \in (dirs \ dirs') \cup (files \ files')
                            \cup (DOMAIN lib \ DOMAIN lib') :
                    /\ req[p].force
                    /\ pc[p] = "wipe"
                    /\ \E d \in OwnDirs(p) : IsPrefix(d, x)
              /\ Abs(FetchcontentDir(req[p])) \in dirs
                    => Abs(FetchcontentDir(req[p])) \in dirs'
              /\ pc[p] \in OwnSteps =>
                    \A x \in DOMAIN lib \cap DOMAIN lib' : lib[x] \subseteq lib'[x]]_vars

\* a forced run that found build files or an install tree for its key has
\* wiped them, and the fetch directory an earlier run made is still there
C26_Witness ==
    /\ req[1].force
    /\ loc[1].pre
    /\ pc[1] = "mkdirs"
    /\ ~CacheContents(req[1])
    /\ \A d \in OwnDirs(1) : d \notin dirs
    /\ Abs(FetchcontentDir(req[1])) \in dirs

Misconfigured(r) == ~r.srcOk \/ ~parse_extra_defines(r.extra).ok

\* C29: no step of a run whose source tree lacks cmake/CMakeLists.txt or
\* whose --extra holds an entry without "=" changes a directory, a build
\* file, an install lib directory or a visible path, and the run ends failed
C29_RejectedRunChangesNothing ==
    /\ [](\A p \in Procs : Misconfigured(req[p]) => pc[p] # "done")
    /\ [][\A p \in Procs :
             (Misconfigured(req[p]) /\ pc[p] \notin {"idle", "done", "failed"}
                /\ pc'[p] # pc[p])
             => UNCHANGED <<dirs, files, lib, vis>>]_vars

\* invocation p runs with --force on the install directory of invocation q
\* and has passed its wipe without having installed anything yet
WipedUnder(p, q) ==
    /\ p # q
    /\ req[p].force
    /\ InstallLib(p) = InstallLib(q)
    /\ pc[p] \in BeforeExternal \cup {"build", "install"}
    /\ ~LibDirExists(q)

=============================================================================
